---------------------------- MODULE Spec2Model ----------------------------
(***************************************************************************)
(* Model of bot.py: a Telegram bot that sends one Hebrew word to a         *)
(* language model, parses the answer into a display text and a list of     *)
(* derived words, caches the analysis per chat and appends the word a      *)
(* user selects to a Google sheet unless its headword is already stored.   *)
(*                                                                         *)
(* Text is a sequence of tokens (strings).  A token is a word, one         *)
(* whitespace character, one punctuation character, the marker             *)
(* DERIVED_JSON:, a code fence, or one JSON object literal.  The regular   *)
(* expressions of the source are translated token by token.                *)
(***************************************************************************)
EXTENDS Integers, Sequences, FiniteSets, TLC

----------------------------------------------------------------------------
(* Tokens *)

MARKER == "DERIVED_JSON:"
\* the two code fence markers (three backquotes, with and without json)
FENCE_JSON == "<fence>json"
FENCE == "<fence>"
SP == " "
NL == "\n"
LBR == "["
RBR == "]"
COMMA == ","
EQ == "="
STAR == "*"

Whitespace == {SP, NL}

\* JSON object literals the model service may emit.  ObjW3F is ObjW3 with a
\* code fence inside its gloss string; ObjNoGloss lacks the key "english".
ObjW1 == "{w1}"
ObjW2 == "{w2}"
ObjW3 == "{w3}"
ObjW3F == "{w3+fence}"
ObjNoGloss == "{nogloss}"
ObjEdge == "{edge}"
ObjLong == "{long}"
JsonNumber == "7"
JsonList == "[..]"

ObjectTokens == {ObjW1, ObjW2, ObjW3, ObjW3F, ObjNoGloss, ObjEdge, ObjLong}

\* two glosses, of 45 and of 44 characters
GlossEdge == "one who has been made whole and sound again, "
GlossLong == "to pay back in full what is owed to another."

\* The keys and values of a decoded JSON object.
Fields(tok) ==
    CASE tok = ObjW1 -> [hebrew |-> "SLWM", translit |-> "shalom", english |-> "peace"]
      [] tok = ObjW2 -> [hebrew |-> "SLM", translit |-> "shalem", english |-> "whole"]
      [] tok = ObjW3 -> [hebrew |-> "MSLM", translit |-> "mushlam", english |-> "perfect"]
      [] tok = ObjW3F -> [hebrew |-> "MSLM", translit |-> "mushlam", english |-> "per<fence>fect"]
      [] tok = ObjNoGloss -> [hebrew |-> "LSLM", translit |-> "leshalem"]
      [] tok = ObjEdge -> [hebrew |-> "SLM", translit |-> "shalem", english |-> GlossEdge]
      [] tok = ObjLong -> [hebrew |-> "MSLM", translit |-> "mushlam", english |-> GlossLong]
      [] OTHER -> <<>>

IsDict(tok) == tok \in ObjectTokens

HasKey(tok, k) == IsDict(tok) /\ k \in DOMAIN Fields(tok)

----------------------------------------------------------------------------
(* str methods *)

RECURSIVE LStrip(_, _)
LStrip(s, chars) ==
    IF s # <<>> /\ Head(s) \in chars THEN LStrip(Tail(s), chars) ELSE s

RECURSIVE RStrip(_, _)
RStrip(s, chars) ==
    IF s # <<>> /\ s[Len(s)] \in chars THEN RStrip(SubSeq(s, 1, Len(s) - 1), chars) ELSE s

\* str.strip(chars)
StripChars(s, chars) == RStrip(LStrip(s, chars), chars)

\* str.strip()
Strip(s) == StripChars(s, Whitespace)

\* s[i:] and s[:i] with 1-based i
From(s, i) == SubSeq(s, i, Len(s))
Upto(s, i) == SubSeq(s, 1, i)

\* needle in s
Contains(s, needle) ==
    \E i \in 1..(Len(s) - Len(needle) + 1) : SubSeq(s, i, i + Len(needle) - 1) = needle

\* s.startswith(prefix)
StartsWith(s, prefix) == Len(s) >= Len(prefix) /\ Upto(s, Len(prefix)) = prefix

\* index of the first / last position of s in lo..hi holding token t; 0 if none
FirstIndex(s, t, lo) ==
    LET hits == {i \in lo..Len(s) : s[i] = t}
    IN  IF hits = {} THEN 0 ELSE CHOOSE i \in hits : \A j \in hits : i <= j

LastIndex(s, t) ==
    LET hits == {i \in 1..Len(s) : s[i] = t}
    IN  IF hits = {} THEN 0 ELSE CHOOSE i \in hits : \A j \in hits : i >= j

\* the position after the whitespace that starts at i (regex \s*)
RECURSIVE SkipWs(_, _)
SkipWs(s, i) ==
    IF i <= Len(s) /\ s[i] \in Whitespace THEN SkipWs(s, i + 1) ELSE i

\* "".join / str.splitlines
RECURSIVE Flatten(_)
Flatten(ss) == IF ss = <<>> THEN <<>> ELSE Head(ss) \o Flatten(Tail(ss))

RECURSIVE SplitLines(_)
SplitLines(s) ==
    LET n == FirstIndex(s, NL, 1)
    IN  IF s = <<>> THEN <<>>
        ELSE IF n = 0 THEN <<s>>
        ELSE <<Upto(s, n - 1)>> \o SplitLines(From(s, n + 1))

----------------------------------------------------------------------------
(* json.loads on the token text of a payload *)

ParseFail == [ok |-> FALSE, next |-> 0, val |-> "", items |-> <<>>]

\* One JSON value starting at s[i]: an object literal, a number, or an array
\* of values.  val is the decoded value (an array decodes to JsonList, its
\* elements are in items); next is the position after the value.
RECURSIVE ParseValue(_, _)
RECURSIVE ParseItems(_, _, _)
ParseValue(s, i) ==
    IF i > Len(s) THEN ParseFail
    ELSE IF s[i] \in ObjectTokens \cup {JsonNumber}
         THEN [ok |-> TRUE, next |-> i + 1, val |-> s[i], items |-> <<>>]
    ELSE IF s[i] = LBR
         THEN LET j == SkipWs(s, i + 1)
              IN  IF j <= Len(s) /\ s[j] = RBR
                  THEN [ok |-> TRUE, next |-> j + 1, val |-> JsonList, items |-> <<>>]
                  ELSE ParseItems(s, j, <<>>)
    ELSE ParseFail

ParseItems(s, i, acc) ==
    LET v == ParseValue(s, i)
        j == SkipWs(s, v.next)
    IN  IF ~v.ok \/ j > Len(s) THEN ParseFail
        ELSE IF s[j] = RBR
             THEN [ok |-> TRUE, next |-> j + 1, val |-> JsonList,
                   items |-> Append(acc, v.val)]
        ELSE IF s[j] = COMMA
             THEN ParseItems(s, SkipWs(s, j + 1), Append(acc, v.val))
        ELSE ParseFail

\* json.loads(s): the whole text must be one value; anything else raises.
JsonLoads(s) ==
    LET v == ParseValue(s, SkipWs(s, 1))
    IN  IF v.ok /\ SkipWs(s, v.next) > Len(s) THEN v ELSE ParseFail

----------------------------------------------------------------------------
(* call_deepseek, after the completion has been received *)

\* text.replace(fence-json, "").replace(fence, "").strip(): the fence
\* markers go wherever they stand, also inside a JSON string.
RemoveFenceIn(tok) == IF tok = ObjW3F THEN ObjW3 ELSE tok

Cleaned(text) ==
    LET kept == SelectSeq(text, LAMBDA t : t \notin {FENCE_JSON, FENCE})
    IN  Strip([i \in 1..Len(kept) |-> RemoveFenceIn(kept[i])])

\* re.search(r"DERIVED_JSON:\s*(\[[\s\S]*\])", cleaned): the leftmost marker
\* that is followed, after optional whitespace, by "[" with some "]" after
\* it; the group runs greedily to the LAST "]" of the text.
NoMatch == [found |-> FALSE, start |-> 0, open |-> 0, close |-> 0]

MarkerSearch(cleaned) ==
    LET close == LastIndex(cleaned, RBR)
        ok(i) == /\ cleaned[i] = MARKER
                 /\ SkipWs(cleaned, i + 1) <= Len(cleaned)
                 /\ cleaned[SkipWs(cleaned, i + 1)] = LBR
                 /\ close > SkipWs(cleaned, i + 1)
        hits == {i \in 1..Len(cleaned) : ok(i)}
        first == CHOOSE i \in hits : \A j \in hits : i <= j
    IN  IF hits = {} THEN NoMatch
        ELSE [found |-> TRUE, start |-> first,
              open |-> SkipWs(cleaned, first + 1), close |-> close]

\* re.search(r"(\[[\s\S]*\])", cleaned): the first "[" to the last "]".
FallbackSearch(cleaned) ==
    LET open == FirstIndex(cleaned, LBR, 1)
        close == LastIndex(cleaned, RBR)
    IN  IF open = 0 \/ close < open THEN NoMatch
        ELSE [found |-> TRUE, start |-> open, open |-> open, close |-> close]

\* the decoding, were the decoded value wrapped whatever its type
DecodeBlockAlwaysWraps(json_block) ==
    LET v == JsonLoads(json_block)
    IN  IF ~v.ok THEN <<>> ELSE <<v.val>>

\* lines 210-217: json.loads of the block; a value that is not a list is
\* wrapped in a list; any exception gives the empty list.
DecodeBlock(json_block) ==
    LET v == JsonLoads(json_block)
    IN  IF ~v.ok THEN <<>>
        ELSE IF v.val = JsonList THEN v.items
        ELSE <<v.val>>

\* lines 179-222: content is resp.choices[0].message.content
ParseCompletion(content) ==
    LET text == Strip(content)
        cleaned == Cleaned(text)
        m == MarkerSearch(cleaned)
        f == FallbackSearch(cleaned)
    IN  IF m.found
        THEN [main_text |-> Strip(Strip(Upto(cleaned, m.start - 1))),
              json_block |-> Strip(SubSeq(cleaned, m.open, m.close)),
              derived |-> DecodeBlock(Strip(SubSeq(cleaned, m.open, m.close)))]
        ELSE IF f.found
        THEN [main_text |-> Strip(Strip(Upto(cleaned, f.start - 1)
                                        \o From(cleaned, f.close + 1))),
              json_block |-> Strip(SubSeq(cleaned, f.open, f.close)),
              derived |-> DecodeBlock(Strip(SubSeq(cleaned, f.open, f.close)))]
        ELSE [main_text |-> Strip(text), json_block |-> <<>>, derived |-> <<>>]

----------------------------------------------------------------------------
(* extract_roots_and_arabic *)

ARABIC == "Arabic"
COGNATE == "cognate"
ROOT == "root"
EXAMPLES == "examples"
CORE_MEANING == "core meaning"
NONE == "none"

Unknown == <<"unknown">>
None == <<NONE>>

CognatePrefix == <<ARABIC, SP, COGNATE, SP, ROOT>>
ExamplesPrefix == <<ARABIC, SP, EXAMPLES>>

\* lines = [l.strip() for l in main_text.splitlines() if l.strip()]
Lines(main_text) ==
    LET raw == SplitLines(main_text)
        stripped == [i \in 1..Len(raw) |-> Strip(raw[i])]
    IN  SelectSeq(stripped, LAMBDA l : l # <<>>)

NoGroup == [found |-> FALSE, g1 |-> <<>>, g2 |-> <<>>]

\* re.search(r"root\s*=\s*(.+?)\s*core meaning", line) tried at the "root"
\* that stands at position i.  a is the first token after "=" and its
\* whitespace; the lazy group ends before the first "core meaning" after a.
\* When "core meaning" stands at a itself, the group can only be whitespace
\* given back by the greedy \s*, and there must be some.
RootMatchAt(line, i) ==
    LET e == SkipWs(line, i + 1)
        a == SkipWs(line, e + 1)
        c == FirstIndex(line, CORE_MEANING, a + 1)
    IN  IF ~(line[i] = ROOT /\ e <= Len(line) /\ line[e] = EQ) THEN NoGroup
        ELSE IF c # 0
             THEN [found |-> TRUE, g1 |-> SubSeq(line, a, c - 1), g2 |-> <<>>]
        ELSE IF a <= Len(line) /\ line[a] = CORE_MEANING /\ a > e + 1
             THEN [found |-> TRUE, g1 |-> <<SP>>, g2 |-> <<>>]
        ELSE NoGroup

RootSearch(line) ==
    LET hits == {i \in 1..Len(line) : RootMatchAt(line, i).found}
    IN  IF hits = {} THEN NoGroup
        ELSE RootMatchAt(line, CHOOSE i \in hits : \A j \in hits : i <= j)

\* re.search(r"Arabic cognate root\s+(.+?)\s*=\s*(.+)$", line) tried at the
\* prefix that starts at position p.  g0 is the first token after the
\* whitespace; the lazy first group ends before the first "=" after g0 that
\* has something after it.  When there is none and "=" stands at g0 itself,
\* the first group can only be one blank given back by the greedy \s+.
CognateMatchAt(line, p) ==
    LET s0 == p + Len(CognatePrefix)
        g0 == SkipWs(line, s0)
        qs == {q \in (g0 + 1)..(Len(line) - 1) : line[q] = EQ}
        q  == CHOOSE x \in qs : \A y \in qs : x <= y
    IN  IF ~(s0 - 1 <= Len(line) /\ SubSeq(line, p, s0 - 1) = CognatePrefix /\ g0 > s0)
        THEN NoGroup
        ELSE IF qs # {}
             THEN [found |-> TRUE, g1 |-> SubSeq(line, g0, q - 1),
                   g2 |-> From(line, SkipWs(line, q + 1))]
        ELSE IF g0 < Len(line) /\ line[g0] = EQ /\ g0 > s0 + 1
             THEN [found |-> TRUE, g1 |-> <<SP>>,
                   g2 |-> From(line, SkipWs(line, g0 + 1))]
        ELSE NoGroup

CognateSearch(line) ==
    LET hits == {p \in 1..Len(line) : CognateMatchAt(line, p).found}
    IN  IF hits = {} THEN NoGroup
        ELSE CognateMatchAt(line, CHOOSE p \in hits : \A j \in hits : p <= j)

\* lines 235-238: the body of the first loop for the root
HebRootStep(heb_root, line) ==
    IF Contains(line, <<SP, ROOT, SP, EQ>>) /\ RootSearch(line).found
    THEN Strip(RootSearch(line).g1)
    ELSE heb_root

\* lines 240-247: the body of the first loop for the cognate root
ArRootStep(ar_root, line) ==
    IF ~StartsWith(line, CognatePrefix) THEN ar_root
    ELSE IF Contains(line, <<EQ, SP, NONE>>) THEN None
    ELSE IF CognateSearch(line).found
         THEN Strip(CognateSearch(line).g1) \o <<SP>> \o Strip(CognateSearch(line).g2)
    ELSE ar_root

\* lines 234-247: the first loop runs over every line, without a break
RECURSIVE ScanRoots(_, _, _)
ScanRoots(lines, heb_root, ar_root) ==
    IF lines = <<>> THEN [heb_root |-> heb_root, ar_root |-> ar_root]
    ELSE ScanRoots(Tail(lines), HebRootStep(heb_root, Head(lines)),
                   ArRootStep(ar_root, Head(lines)))

\* lines 252-257: the second loop
RECURSIVE ScanExamples(_, _, _)
ScanExamples(lines, capture, examples) ==
    IF lines = <<>> THEN examples
    ELSE IF StartsWith(Head(lines), ExamplesPrefix)
         THEN ScanExamples(Tail(lines), TRUE, examples)
    ELSE IF capture /\ StartsWith(Head(lines), <<STAR>>)
         THEN ScanExamples(Tail(lines), capture,
                           Append(examples, Strip(StripChars(Head(lines), {STAR, SP}))))
    ELSE ScanExamples(Tail(lines), capture, examples)

\* line 259: examples[0] + "\n* " + "\n* ".join(examples[1:])
RECURSIVE JoinExamples(_)
JoinExamples(examples) ==
    IF Len(examples) = 1 THEN examples[1]
    ELSE JoinExamples(Upto(examples, Len(examples) - 1))
         \o <<NL, STAR, SP>> \o examples[Len(examples)]

extract_roots_and_arabic(main_text) ==
    LET lines == Lines(main_text)
        roots == ScanRoots(lines, Unknown, None)
        examples == ScanExamples(lines, FALSE, <<>>)
    IN  [heb_root |-> roots.heb_root,
         ar_root |-> roots.ar_root,
         ar_examples |-> IF roots.ar_root # None /\ examples # <<>>
                         THEN JoinExamples(examples) ELSE None]

----------------------------------------------------------------------------
(* Inputs of the system: chats, message texts, button tokens, completions *)

Chats == {1, 2}

\* A message text is a sequence of characters: "H" is a Hebrew letter
\* (U+05D0..U+05EA), "a" and "1" are a Latin letter and a digit; the command
\* /start is one token.
HEBREW_LETTER == "H"
StartCommand == <<"/start">>

\* <<>> is a message without text, <<SP>> a blank one.
Texts ==
    { StartCommand,
      <<HEBREW_LETTER, HEBREW_LETTER>>,
      <<SP, HEBREW_LETTER>>,
      <<"a", "1">>,
      <<SP>>,
      <<>> }

\* the filter, were it to accept every non-empty text
AnyNonEmptyText(text) == text # <<>>

\* HEBREW_WORD_RE.match(text): one or more Hebrew letters and nothing else
HEBREW_WORD_RE(text) ==
    text # <<>> /\ \A i \in 1..Len(text) : text[i] = HEBREW_LETTER

\* callback_data of a button press
SAVE == "save"
COLON == ":"

Datas ==
    { <<SAVE, COLON, "0">>, <<SAVE, COLON, "1">>, <<SAVE, COLON, "2">>,
      <<SAVE, COLON, "-1">>, <<SAVE, COLON, "x">>, <<"noop">> }

IntLiterals == {"-1", "0", "1", "2"}

IntValue(tok) ==
    CASE tok = "-1" -> -1 [] tok = "0" -> 0 [] tok = "1" -> 1 [] tok = "2" -> 2

\* data.split(":")[1]
RECURSIVE Split(_, _)
Split(s, sep) ==
    LET n == FirstIndex(s, sep, 1)
    IN  IF n = 0 THEN <<s>> ELSE <<Upto(s, n - 1)>> \o Split(From(s, n + 1), sep)

\* Completions of the model service (resp.choices[0].message.content).
\* ScenarioText is the scenario of the specification, FormatText follows the
\* format the prompt asks for.
RootSLM == "S-L-M"

ScenarioText ==
    <<ROOT, SP, EQ, SP, RootSLM, SP, CORE_MEANING, SP, EQ, SP, "peace", NL,
      ARABIC, SP, COGNATE, SP, ROOT, SP, EQ, SP, NONE, NL,
      MARKER, NL, LBR, ObjW1, RBR>>

FormatText ==
    <<"SLWM", SP, ROOT, SP, EQ, SP, RootSLM, SP, CORE_MEANING, SP, EQ, SP, "peace", NL,
      ARABIC, SP, COGNATE, SP, ROOT, SP, "s-l-m", SP, EQ, SP, "safety", NL,
      ARABIC, SP, EXAMPLES, COLON, NL,
      STAR, SP, "salam", NL, STAR, SP, "muslim", NL,
      FENCE_JSON, NL, MARKER, NL, LBR, ObjEdge, COMMA, NL, ObjLong, RBR, NL, FENCE>>

UnterminatedText ==
    <<"SLM", SP, ROOT, SP, EQ, SP, RootSLM, SP, CORE_MEANING, NL,
      MARKER, NL, LBR, ObjW2, COMMA>>

MissingKeyText ==
    <<"prose", NL, MARKER, SP, LBR, ObjW3, COMMA, ObjNoGloss, RBR>>

BrokenArrayText ==
    <<"prose", NL, MARKER, SP, LBR, ObjW1, COMMA, RBR>>

Responses ==
    {ScenarioText, FormatText, UnterminatedText, MissingKeyText, BrokenArrayText}

----------------------------------------------------------------------------
(* Outbound calls *)

TelegramAttempts == 3
DeepseekAttempts == 3

\* How many consecutive requests of one outbound call fail.  While one
\* update is handled the services are either steady (a call works at once or
\* fails at every attempt) or flaky (a call works at its last attempt or
\* fails at every attempt).
Steady == {0, TelegramAttempts}
Flaky == {TelegramAttempts - 1, TelegramAttempts}
FailureSets == {Steady, Flaky}

\* lines 44-54: the request is tried until it succeeds, three times at most
telegram(fails) ==
    [attempts |-> IF fails >= TelegramAttempts THEN TelegramAttempts ELSE fails + 1,
     ok |-> fails < TelegramAttempts]

\* lines 172-185: the completion is requested three times at most
create(fails) ==
    [attempts |-> IF fails >= DeepseekAttempts THEN DeepseekAttempts ELSE fails + 1,
     ok |-> fails < DeepseekAttempts]

\* One outbound call as the handlers make it: what says which message or
\* answer it carries, arg is its text, buttons its inline keyboard.
Call(svc, op, what, arg, buttons, r) ==
    [svc |-> svc, op |-> op, what |-> what, arg |-> arg, buttons |-> buttons,
     attempts |-> r.attempts, ok |-> r.ok]

send_message(what, text, reply_markup, fails) ==
    Call("telegram", "sendMessage", what, text, reply_markup, telegram(fails))

answer_callback(what, text, fails) ==
    Call("telegram", "answerCallbackQuery", what, text, <<>>, telegram(fails))

WelcomeText == <<"Welcome to Hebrew Etymology Bot!">>
CorrectiveText == <<"Please send a single Hebrew word">>
AnalyzingText == <<"Analyzing...">>
ErrorText == <<"Error: {e}">>

CrossLabel == <<"X">>
ExpiredLabel == <<"X Expired">>
SavedLabel == <<"OK">>
DuplicateLabel == <<"Duplicate">>
ErrorLabel == <<"X Error">>

----------------------------------------------------------------------------
(* call_deepseek and the analysis of one completion *)

\* The parse of every completion and the metadata of its main text, computed
\* once: call_deepseek(word) for a completion, then line 311.
Analysis ==
    [content \in Responses |->
        [result |-> ParseCompletion(content),
         meta |-> extract_roots_and_arabic(ParseCompletion(content).main_text)]]

\* lines 313-318
CacheEntry(content) ==
    [heb_root |-> Analysis[content].meta.heb_root,
     ar_root |-> Analysis[content].meta.ar_root,
     ar_examples |-> Analysis[content].meta.ar_examples,
     derived |-> Analysis[content].result.derived]

\* the assignment, were the cache one slot shared by the chats
PutShared(cache, chat, entry) ==
    [c \in (DOMAIN cache) \cup {chat} |-> entry]

\* LAST_RESULTS[chat_id] = entry
Put(cache, chat, entry) ==
    [c \in (DOMAIN cache) \cup {chat} |-> IF c = chat THEN entry ELSE cache[c]]

\* len() of the strings the objects hold
StrLen(str) ==
    CASE str = "SLWM" -> 4 [] str = "SLM" -> 3 [] str = "MSLM" -> 4 [] str = "LSLM" -> 4
      [] str = "shalom" -> 6 [] str = "shalem" -> 6 [] str = "mushlam" -> 7
      [] str = "leshalem" -> 8 [] str = "peace" -> 5 [] str = "whole" -> 5
      [] str = "perfect" -> 7 [] str = GlossEdge -> 45 [] str = GlossLong -> 44
      [] OTHER -> 10

LabelLimit == 60
LabelKeep == 57

\* the label, were it never cut
LabelNeverCut(d) ==
    [text |-> <<d.hebrew, " - ", d.translit, " - ", d.english>>,
     keep |-> StrLen(d.hebrew) + 3 + StrLen(d.translit) + 3 + StrLen(d.english),
     dots |-> FALSE]

\* lines 322-324: the label is text cut to its first keep characters, with
\* "..." after them when dots holds
Label(d) ==
    LET text == <<d.hebrew, " - ", d.translit, " - ", d.english>>
        n == StrLen(d.hebrew) + 3 + StrLen(d.translit) + 3 + StrLen(d.english)
    IN  IF n > LabelLimit
        THEN [text |-> text, keep |-> LabelKeep, dots |-> TRUE]
        ELSE [text |-> text, keep |-> n, dots |-> FALSE]

\* d['hebrew'], d['translit'], d['english'] raise unless d is an object
\* that has the three keys
HasFields(d) == \A k \in {"hebrew", "translit", "english"} : HasKey(d, k)

\* lines 320-328; callback_data is "save:" and the index counted from 0
Buttons(derived) ==
    [i \in 1..Len(derived) |->
        [text |-> Label(Fields(derived[i])), callback_data |-> i - 1]]

----------------------------------------------------------------------------
(* Handlers.  A handler is the set of its possible outcomes: the cache and  *)
(* the sheet it leaves, the outbound calls it made in order, and the        *)
(* exception it let escape ("none" when it returned); stored is the         *)
(* completion whose analysis it put into the cache, <<>> when it put none.  *)

Outcome(cache, sh, calls, raised) ==
    [cache |-> cache, sheet |-> sh, calls |-> calls, raised |-> raised,
     stored |-> <<>>]

\* a telegram call outside any try block: RuntimeError escapes when it fails
EndWith(cache, sh, calls, c) ==
    Outcome(cache, sh, Append(calls, c), IF c.ok THEN "none" ELSE "RuntimeError")

\* lines 333-335: the except clause of handle_message
ExceptSend(cache, sh, calls, F) ==
    {EndWith(cache, sh, calls, send_message("error", ErrorText, <<>>, f)) : f \in F}

\* the reply, were a result without derived words treated as a failure
ReplyNeedsButtons(cache, sh, result, calls, F) ==
    IF \/ result.derived = <<>>
       \/ \E i \in 1..Len(result.derived) : ~HasFields(result.derived[i])
    THEN ExceptSend(cache, sh, calls, F)
    ELSE UNION { IF m.ok
                 THEN {Outcome(cache, sh, Append(calls, m), "none")}
                 ELSE ExceptSend(cache, sh, Append(calls, m), F)
                 : m \in {send_message("main", result.main_text,
                                       Buttons(result.derived), f) : f \in F} }

\* lines 320-331: the buttons are built and the main text is sent
Reply(cache, sh, result, calls, F) ==
    IF \E i \in 1..Len(result.derived) : ~HasFields(result.derived[i])
    THEN ExceptSend(cache, sh, calls, F)
    ELSE UNION { IF m.ok
                 THEN {Outcome(cache, sh, Append(calls, m), "none")}
                 ELSE ExceptSend(cache, sh, Append(calls, m), F)
                 : m \in {send_message("main", result.main_text,
                                       Buttons(result.derived), f) : f \in F} }

\* the presentation, were an entry the chat already has left in place
PresentKeepsEntry(cache, sh, chat, content, calls, F) ==
    { [o EXCEPT !.stored = content]
      : o \in Reply(IF chat \in DOMAIN cache THEN cache
                    ELSE Put(cache, chat, CacheEntry(content)), sh,
                    Analysis[content].result, calls, F) }

\* lines 308-331: the completion arrived; the cache is written before the
\* buttons are built
Present(cache, sh, chat, content, calls, F) ==
    { [o EXCEPT !.stored = content]
      : o \in Reply(Put(cache, chat, CacheEntry(content)), sh,
                    Analysis[content].result, calls, F) }

\* lines 306-335: the try block
AnalyzeTry(cache, sh, chat, calls, F) ==
    UNION { IF ~ds.ok
            THEN ExceptSend(cache, sh, Append(calls, ds), F)
            ELSE UNION { Present(cache, sh, chat, content, Append(calls, ds), F)
                         : content \in Responses }
            : ds \in {Call("deepseek", "create", "completion", <<>>, <<>>, create(f))
                      : f \in F} }

\* lines 285-335
handle_message(cache, sh, chat, msgtext, F) ==
    LET text == Strip(msgtext)
    IN  IF text = StartCommand
        THEN {EndWith(cache, sh, <<>>, send_message("welcome", WelcomeText, <<>>, f))
              : f \in F}
        ELSE IF ~HEBREW_WORD_RE(text)
        THEN {EndWith(cache, sh, <<>>, send_message("corrective", CorrectiveText, <<>>, f))
              : f \in F}
        ELSE UNION { IF ~a.ok
                     THEN {Outcome(cache, sh, <<a>>, "RuntimeError")}
                     ELSE AnalyzeTry(cache, sh, chat, <<a>>, F)
                     : a \in {send_message("analyzing", AnalyzingText, <<>>, f)
                              : f \in F} }

----------------------------------------------------------------------------
(* The sheet and handle_callback *)

\* A row is six cells.  The cells of the first three columns are strings,
\* those of the last three are token texts.
HeaderRow ==
    <<"Headword", "Transliteration", "Gloss", <<"Root">>, <<"Cognate root">>,
      <<"Cognate examples">>>>

\* sheet.col_values(1)
col_values(sh) == [i \in 1..Len(sh) |-> sh[i][1]]

\* line 271: all_vals[1:] if len(all_vals) > 1 else []
Existing(all_vals) == IF Len(all_vals) > 1 THEN Tail(all_vals) ELSE <<>>

InSeq(x, seq) == \E i \in 1..Len(seq) : seq[i] = x

SheetCall(op, ok) ==
    [svc |-> "sheet", op |-> op, what |-> "store", arg |-> <<>>, buttons |-> <<>>,
     attempts |-> 1, ok |-> ok]

\* the save, were the lookup of the headword left out
append_without_lookup(sh, row, readOk, writeOk) ==
    IF ~readOk
    THEN [sheet |-> sh, saved |-> FALSE, raised |-> TRUE,
          calls |-> <<SheetCall("col_values", FALSE)>>]
    ELSE IF ~writeOk
    THEN [sheet |-> sh, saved |-> FALSE, raised |-> TRUE,
          calls |-> <<SheetCall("col_values", TRUE), SheetCall("append_row", FALSE)>>]
    ELSE [sheet |-> Append(sh, row), saved |-> TRUE, raised |-> FALSE,
          calls |-> <<SheetCall("col_values", TRUE), SheetCall("append_row", TRUE)>>]

\* the save, were a failure of the store caught and False returned
append_swallowing_errors(sh, row, readOk, writeOk) ==
    IF ~readOk
    THEN [sheet |-> sh, saved |-> FALSE, raised |-> FALSE,
          calls |-> <<SheetCall("col_values", FALSE)>>]
    ELSE IF InSeq(row[1], Existing(col_values(sh)))
    THEN [sheet |-> sh, saved |-> FALSE, raised |-> FALSE,
          calls |-> <<SheetCall("col_values", TRUE)>>]
    ELSE IF ~writeOk
    THEN [sheet |-> sh, saved |-> FALSE, raised |-> FALSE,
          calls |-> <<SheetCall("col_values", TRUE), SheetCall("append_row", FALSE)>>]
    ELSE [sheet |-> Append(sh, row), saved |-> TRUE, raised |-> FALSE,
          calls |-> <<SheetCall("col_values", TRUE), SheetCall("append_row", TRUE)>>]

\* lines 268-280, with the outcome of the read and of the write.  saved is
\* the value returned; raised tells that col_values or append_row raised.
append_to_sheet(sh, row, readOk, writeOk) ==
    IF ~readOk
    THEN [sheet |-> sh, saved |-> FALSE, raised |-> TRUE,
          calls |-> <<SheetCall("col_values", FALSE)>>]
    ELSE IF InSeq(row[1], Existing(col_values(sh)))
    THEN [sheet |-> sh, saved |-> FALSE, raised |-> FALSE,
          calls |-> <<SheetCall("col_values", TRUE)>>]
    ELSE IF ~writeOk
    THEN [sheet |-> sh, saved |-> FALSE, raised |-> TRUE,
          calls |-> <<SheetCall("col_values", TRUE), SheetCall("append_row", FALSE)>>]
    ELSE [sheet |-> Append(sh, row), saved |-> TRUE, raised |-> FALSE,
          calls |-> <<SheetCall("col_values", TRUE), SheetCall("append_row", TRUE)>>]

\* lines 357-362: the arguments of append_to_sheet
Row(d, cached) ==
    <<Fields(d).hebrew, Fields(d).translit, Fields(d).english,
      cached.heb_root, cached.ar_root, cached.ar_examples>>

\* the test of line 349, were it idx > len(cached["derived"])
ExpiredOffByOne(cache, chat, idx) ==
    chat \notin DOMAIN cache \/ idx > Len(cache[chat].derived)

\* line 349: not cached or idx >= len(cached["derived"])
Expired(cache, chat, idx) ==
    chat \notin DOMAIN cache \/ idx >= Len(cache[chat].derived)

\* seq[idx] of a Python list: a negative index counts from the end
InRange(seq, idx) == -Len(seq) <= idx /\ idx < Len(seq)
PyIndex(seq, idx) == IF idx >= 0 THEN seq[idx + 1] ELSE seq[Len(seq) + idx + 1]

\* lines 365-367: the except clause of handle_callback
ExceptAnswer(cache, sh, calls, F) ==
    {EndWith(cache, sh, calls, answer_callback("error", ErrorLabel, f)) : f \in F}

\* lines 355-367: the try block, for the selected element d
SaveTry(cache, sh, chat, d, F) ==
    IF ~HasFields(d)
    THEN ExceptAnswer(cache, sh, <<>>, F)
    ELSE UNION { LET r == append_to_sheet(sh, Row(d, cache[chat]), readOk, writeOk)
                 IN  IF r.raised
                     THEN ExceptAnswer(cache, sh, r.calls, F)
                     ELSE UNION { IF a.ok
                                  THEN {Outcome(cache, r.sheet, Append(r.calls, a), "none")}
                                  ELSE ExceptAnswer(cache, r.sheet, Append(r.calls, a), F)
                                  : a \in {IF r.saved
                                           THEN answer_callback("saved", SavedLabel, f)
                                           ELSE answer_callback("duplicate", DuplicateLabel, f)
                                           : f \in F} }
                 : readOk \in BOOLEAN, writeOk \in BOOLEAN }

\* lines 337-367
handle_callback(cache, sh, chat, data, F) ==
    LET parts == Split(data, COLON)
        arg == IF Len(parts) > 1 THEN Strip(parts[2]) ELSE <<>>
        idx == IntValue(arg[1])
    IN  IF ~StartsWith(data, <<SAVE, COLON>>)
        THEN {EndWith(cache, sh, <<>>, answer_callback("cross", CrossLabel, f))
              : f \in F}
        ELSE IF ~(Len(arg) = 1 /\ arg[1] \in IntLiterals)
        THEN {Outcome(cache, sh, <<>>, "ValueError")}
        ELSE IF Expired(cache, chat, idx)
        THEN {EndWith(cache, sh, <<>>, answer_callback("expired", ExpiredLabel, f))
              : f \in F}
        ELSE IF ~InRange(cache[chat].derived, idx)
        THEN {Outcome(cache, sh, <<>>, "IndexError")}
        ELSE SaveTry(cache, sh, chat, PyIndex(cache[chat].derived, idx), F)

----------------------------------------------------------------------------
(* The long polling loop of main *)

MaxUpdates == 3

VARIABLES
    pc,            \* where main stands: "poll", "loop", "handle" or "except"
    nextId,        \* update_id the chat transport gives to the next update
    offset,        \* offset of main; 0 is None
    batch,         \* the updates of the for loop not yet taken, by update_id
    cur,           \* the update the for loop has taken
    LAST_RESULTS,  \* chat_id -> cached analysis
    sheet,         \* the rows of the sheet
    origin,        \* history: chat_id -> the completion its cache entry is from
    earlier,       \* history: chat_id -> the completion of the entry it replaced
    last,          \* history: the update handled last and what its handler did,
                   \* until the next update is taken
    sample,        \* an input put together for one function alone
    out            \* what the function made of sample

vars == <<pc, nextId, offset, batch, cur, LAST_RESULTS, sheet, origin, earlier, last, sample, out>>

NoUpdate ==
    [id |-> 0, kind |-> "none", chat |-> 0, input |-> <<>>, calls |-> <<>>,
     raised |-> "none", stored |-> <<>>]

NoCur == [id |-> 0, kind |-> "none", chat |-> 0, input |-> <<>>]

NoSample == [display |-> <<>>, sep |-> <<>>, records |-> <<>>, after |-> <<>>]
NotRun == [main_text |-> <<>>, json_block |-> <<>>, derived |-> <<>>, done |-> FALSE]

Init ==
    /\ pc = "poll"
    /\ nextId = 1
    /\ offset = 0
    /\ batch = <<>>
    /\ cur = NoCur
    /\ LAST_RESULTS = <<>>
    /\ sheet \in {<<HeaderRow>>, <<>>}
    /\ origin = <<>>
    /\ earlier = <<>>
    /\ last = NoUpdate
    /\ sample = NoSample
    /\ out = NotRun

\* A user sends a message or presses a button: the transport queues an
\* update.  main sees the queue only in get_updates, so an update that
\* arrives while another is handled is one that arrives before the next poll.
NewUpdate ==
    /\ pc = "poll"
    /\ nextId <= MaxUpdates
    /\ nextId' = nextId + 1
    /\ UNCHANGED <<pc, offset, batch, cur, LAST_RESULTS, sheet, origin, earlier, last, sample, out>>

\* get_updates, were it to leave the offset out of the request
PendingIgnoresOffset == [i \in 1..(nextId - 1) |-> i]

\* lines 372-378 and 389: the updates from offset on (all unconfirmed ones
\* when offset is None)
Pending == [i \in 1..(nextId - (IF offset = 0 THEN 1 ELSE offset)) |->
               (IF offset = 0 THEN 1 ELSE offset) + i - 1]

GetUpdates ==
    /\ pc = "poll"
    /\ batch' = Pending
    /\ pc' = IF Pending = <<>> THEN "poll" ELSE "loop"
    /\ UNCHANGED <<nextId, offset, cur, LAST_RESULTS, sheet, origin, earlier, last, sample, out>>

\* get_updates raises (request failed or bad status): line 397 catches it
GetUpdatesFails ==
    /\ pc = "poll"
    /\ pc' = "except"
    /\ batch' = <<>>
    /\ UNCHANGED <<nextId, offset, cur, LAST_RESULTS, sheet, origin, earlier, last, sample, out>>

\* lines 390-391: the for loop takes the next update of the batch and moves
\* the offset past it before any handler runs.  What the update holds is what
\* the user sent.
Take(kind, chat, input) ==
    /\ cur' = [id |-> Head(batch), kind |-> kind, chat |-> chat, input |-> input]
    /\ offset' = Head(batch) + 1
    /\ batch' = Tail(batch)
    /\ pc' = "handle"
    /\ last' = NoUpdate
    /\ UNCHANGED <<nextId, LAST_RESULTS, sheet, origin, earlier, sample, out>>

TakeUpdate ==
    /\ pc = "loop" /\ batch # <<>>
    /\ \/ \E chat \in Chats, text \in Texts : Take("message", chat, text)
       \/ \E chat \in Chats, data \in Datas : Take("callback", chat, data)
       \/ Take("other", 0, <<>>)

\* lines 392-396: the handler has run; an exception leaves the for loop
Finish(r) ==
    /\ LAST_RESULTS' = r.cache
    /\ sheet' = r.sheet
    /\ last' = [id |-> cur.id, kind |-> cur.kind, chat |-> cur.chat,
                input |-> cur.input, calls |-> r.calls, raised |-> r.raised,
                stored |-> r.stored]
    /\ cur' = NoCur
    /\ IF r.raised # "none"
       THEN pc' = "except" /\ batch' = <<>>
       ELSE /\ batch' = batch
            /\ pc' = IF batch = <<>> THEN "poll" ELSE "loop"
    /\ UNCHANGED <<nextId, offset, sample, out>>

\* lines 392-393
HandleMessage ==
    /\ pc = "handle" /\ cur.kind = "message"
    /\ \E F \in FailureSets :
         \E r \in handle_message(LAST_RESULTS, sheet, cur.chat, cur.input, F) :
            /\ Finish(r)
            /\ origin' = IF r.stored = <<>> THEN origin
                         ELSE Put(origin, cur.chat, r.stored)
            /\ earlier' = IF r.stored = <<>> \/ cur.chat \notin DOMAIN origin
                          THEN earlier
                          ELSE Put(earlier, cur.chat, origin[cur.chat])

\* lines 394-395
HandleCallback ==
    /\ pc = "handle" /\ cur.kind = "callback"
    /\ \E F \in FailureSets :
         \E r \in handle_callback(LAST_RESULTS, sheet, cur.chat, cur.input, F) :
            /\ Finish(r)
            /\ UNCHANGED <<origin, earlier>>

\* an update that is neither a message nor a callback query
SkipUpdate ==
    /\ pc = "handle" /\ cur.kind = "other"
    /\ Finish(Outcome(LAST_RESULTS, sheet, <<>>, "none"))
    /\ UNCHANGED <<origin, earlier>>

\* the except clause, were it to leave the loop
RecoverExits ==
    /\ pc = "except"
    /\ pc' = "exit"
    /\ UNCHANGED <<nextId, offset, batch, cur, LAST_RESULTS, sheet, origin, earlier, last, sample, out>>

\* lines 397-399: log the error, sleep, and go round the while loop again
Recover ==
    /\ pc = "except"
    /\ pc' = "poll"
    /\ UNCHANGED <<nextId, offset, batch, cur, LAST_RESULTS, sheet, origin, earlier, last, sample, out>>

Next ==
    \/ NewUpdate
    \/ GetUpdates
    \/ GetUpdatesFails
    \/ TakeUpdate
    \/ HandleMessage
    \/ HandleCallback
    \/ SkipUpdate
    \/ Recover

Spec == Init /\ [][Next]_vars

\* main is one thread that keeps running.  Every request a handler makes
\* has a timeout (line 48) or is taken to end, and every loop in a handler is bounded, so
\* the handler main stands in returns or raises; the for loop takes the next
\* update; the sleep of the except clause ends.
HandlerEnds == pc = "handle" /\ pc' \in {"poll", "loop", "except"}

LiveSpec ==
    Spec /\ WF_vars(TakeUpdate) /\ WF_pc(HandlerEnds) /\ WF_vars(Recover)

----------------------------------------------------------------------------
(* call_deepseek alone, on completions put together from a display text,   *)
(* the marker, an array of objects and the text after it                   *)

MaxDisplay == 2
MaxRecords == 2

DisplayTokens == {"x", SP, FENCE, MARKER, LBR}
RecordTokens == {ObjW1, ObjW2, ObjW3F}

SeqsUpTo(S, n) == UNION {[1..k -> S] : k \in 0..n}

Separators == {<<>>, <<SP>>, <<NL>>}
Afters == {<<>>, <<NL, "x">>, <<SP, RBR>>, <<NL, LBR, "x", RBR>>}

Samples ==
    [display : SeqsUpTo(DisplayTokens, MaxDisplay), sep : Separators,
     records : SeqsUpTo(RecordTokens, MaxRecords), after : Afters]

\* json.dumps of a list of objects
RECURSIVE JoinRecords(_)
JoinRecords(records) ==
    IF records = <<>> THEN <<>>
    ELSE IF Len(records) = 1 THEN records
    ELSE <<Head(records), COMMA, SP>> \o JoinRecords(Tail(records))

ArrayText(records) == <<LBR>> \o JoinRecords(records) \o <<RBR>>

\* <display text> DERIVED_JSON:<sep>[<records>]<after>
Encoded(smp) ==
    smp.display \o <<SP, MARKER>> \o smp.sep \o ArrayText(smp.records) \o smp.after

ParseInit ==
    /\ pc = "poll"
    /\ nextId = 1
    /\ offset = 0
    /\ batch = <<>>
    /\ cur = NoCur
    /\ LAST_RESULTS = <<>>
    /\ sheet = <<HeaderRow>>
    /\ origin = <<>>
    /\ earlier = <<>>
    /\ last = NoUpdate
    /\ sample \in Samples
    /\ out = NotRun

RunParse ==
    /\ ~out.done
    /\ out' = [main_text |-> ParseCompletion(Encoded(sample)).main_text,
               json_block |-> ParseCompletion(Encoded(sample)).json_block,
               derived |-> ParseCompletion(Encoded(sample)).derived,
               done |-> TRUE]
    /\ UNCHANGED <<pc, nextId, offset, batch, cur, LAST_RESULTS, sheet, origin, earlier, last, sample>>

ParseNext == RunParse

ParseSpec == ParseInit /\ [][ParseNext]_vars

----------------------------------------------------------------------------
(* extract_roots_and_arabic alone, on display texts put together from      *)
(* lines of the kinds the scan tells apart                                 *)

MaxLines == 4

RootLine == <<"SLWM", SP, ROOT, SP, EQ, SP, RootSLM, SP, CORE_MEANING, SP, EQ, SP, "peace">>
OtherRootLine == <<"SLWM", SP, ROOT, SP, EQ, SP, "K-W-N", SP, CORE_MEANING>>
BlankRootLine == <<"SLWM", SP, ROOT, SP, EQ, SP, CORE_MEANING>>
NoCognateLine == <<ARABIC, SP, COGNATE, SP, ROOT, SP, EQ, SP, NONE>>
CognateLine == <<ARABIC, SP, COGNATE, SP, ROOT, SP, "s-l-m", SP, EQ, SP, "safety">>
ExamplesLine == <<ARABIC, SP, EXAMPLES, COLON>>
BulletLine == <<STAR, SP, "salam">>
BareBulletLine == <<STAR>>
ProseLine == <<"prose">>

LineKinds ==
    { RootLine, OtherRootLine, BlankRootLine, NoCognateLine, CognateLine,
      ExamplesLine, BulletLine, BareBulletLine, ProseLine }

Documents == SeqsUpTo(LineKinds, MaxLines)

\* "\n".join(lines)
RECURSIVE JoinLines(_)
JoinLines(lines) ==
    IF lines = <<>> THEN <<>>
    ELSE IF Len(lines) = 1 THEN lines[1]
    ELSE lines[1] \o <<NL>> \o JoinLines(Tail(lines))

MetaInit ==
    /\ pc = "poll"
    /\ nextId = 1
    /\ offset = 0
    /\ batch = <<>>
    /\ cur = NoCur
    /\ LAST_RESULTS = <<>>
    /\ sheet = <<HeaderRow>>
    /\ origin = <<>>
    /\ earlier = <<>>
    /\ last = NoUpdate
    /\ sample \in [lines : Documents]
    /\ out = [done |-> FALSE]

RunExtract ==
    /\ ~out.done
    /\ out' = [meta |-> extract_roots_and_arabic(JoinLines(sample.lines)),
               done |-> TRUE]
    /\ UNCHANGED <<pc, nextId, offset, batch, cur, LAST_RESULTS, sheet, origin,
                   earlier, last, sample>>

MetaNext == RunExtract

MetaSpec == MetaInit /\ [][MetaNext]_vars

----------------------------------------------------------------------------
(* What the properties read from the history *)

\* the step handles an update
Handled == last'.id # last.id

AnswerCalls(l) == SelectSeq(l.calls, LAMBDA c : c.op = "answerCallbackQuery")
SheetCalls(l) == SelectSeq(l.calls, LAMBDA c : c.svc = "sheet")
Whats(calls) == [i \in 1..Len(calls) |-> calls[i].what]
AllOk(calls) == \A i \in 1..Len(calls) : calls[i].ok

\* a button token "save:<i>" with an integer i
IsSavePress(data) ==
    Len(data) = 3 /\ data[1] = SAVE /\ data[2] = COLON /\ data[3] \in IntLiterals

\* the headwords of the data rows (row 1 is the header)
Headwords(sh) == {sh[i][1] : i \in 2..Len(sh)}

HasHeader == sheet # <<>> /\ sheet[1] = HeaderRow

OnlyHebrewLetters(text) ==
    text # <<>> /\ \A i \in 1..Len(text) : text[i] = HEBREW_LETTER

----------------------------------------------------------------------------
(* C1 *)

NoDuplicateRows ==
    \A i, j \in 2..Len(sheet) : i # j => sheet[i][1] # sheet[j][1]

\* A save whose calls to the store and whose answer succeed: when the
\* headword is not yet in a data row, exactly one row with it is appended and
\* the answer is "saved"; when it is, nothing is appended and the answer is
\* "duplicate".
C1Step ==
    (/\ HasHeader /\ Handled /\ last'.kind = "callback"
     /\ SheetCalls(last') # <<>>
     /\ AllOk(last'.calls))
    => LET idx == IntValue(last'.input[3])
           h == Fields(PyIndex(LAST_RESULTS[last'.chat].derived, idx)).hebrew
       IN  IF h \in Headwords(sheet)
           THEN sheet' = sheet /\ Whats(AnswerCalls(last')) = <<"duplicate">>
           ELSE /\ Len(sheet') = Len(sheet) + 1
                /\ SubSeq(sheet', 1, Len(sheet)) = sheet
                /\ sheet'[Len(sheet')][1] = h
                /\ Whats(AnswerCalls(last')) = <<"saved">>

\* C1: on a sheet whose row 1 is the header no two data rows ever hold the
\* same headword; a save of a headword not yet stored appends exactly one row
\* and answers "saved", every save of a stored headword appends nothing and
\* answers "duplicate" (the calls to the store and the answer succeeding).
C1_SaveIdempotent == [](HasHeader => NoDuplicateRows) /\ [][C1Step]_vars

\* a second save of a headword was answered "duplicate", its row is stored
C1_SecondSaveSeen ==
    /\ HasHeader /\ Len(sheet) >= 2
    /\ last.kind = "callback"
    /\ Whats(last.calls) = <<"store", "duplicate">>
    /\ AllOk(last.calls)

----------------------------------------------------------------------------
(* C2 *)

C2Step ==
    (/\ Handled /\ last'.kind = "callback" /\ IsSavePress(last'.input)
     /\ \/ last'.chat \notin DOMAIN LAST_RESULTS
        \/ IntValue(last'.input[3]) >= Len(LAST_RESULTS[last'.chat].derived))
    => /\ Len(last'.calls) = 1
       /\ last'.calls[1].op = "answerCallbackQuery"
       /\ last'.calls[1].arg = ExpiredLabel
       /\ last'.raised = IF last'.calls[1].ok THEN "none" ELSE "RuntimeError"
       /\ sheet' = sheet
       /\ LAST_RESULTS' = LAST_RESULTS

\* C2: a press "save:<i>" in a chat without cache entry, or with i equal to
\* or greater than the number of derived words of its entry, makes one call,
\* the answer "expired", and no call to the store; sheet and cache stay as
\* they are; the handler raises nothing of its own (the RuntimeError of
\* telegram escapes when the answer fails at all three attempts).
C2_ExpiredSelection == [][C2Step]_vars

\* "save:2" was pressed on an entry of two derived words and answered expired
C2_BoundaryIndexSeen ==
    /\ last.kind = "callback" /\ last.input = <<SAVE, COLON, "2">>
    /\ last.chat \in DOMAIN LAST_RESULTS
    /\ Len(LAST_RESULTS[last.chat].derived) = 2
    /\ Whats(last.calls) = <<"expired">>
    /\ last.raised = "none"

----------------------------------------------------------------------------
(* C3 *)

\* C3: the row a save appends for the completion of the scenario
\* (root = S-L-M core meaning = "peace" / Arabic cognate root = none /
\* DERIVED_JSON with the one word) is [headword, transliteration, gloss,
\* S-L-M, none, none]: the fourth column holds the span between "root =" and
\* "core meaning", not "unknown".
C3_ScenarioRow ==
    (/\ last.kind = "callback"
     /\ Whats(last.calls) = <<"store", "store", "saved">>
     /\ last.chat \in DOMAIN origin
     /\ origin[last.chat] = ScenarioText)
    => sheet[Len(sheet)] = <<"SLWM", "shalom", "peace", <<RootSLM>>, None, None>>

----------------------------------------------------------------------------
(* C4 *)

\* the one call a rejected message makes
RejectedWith(what) ==
    /\ Len(last'.calls) = 1
    /\ last'.calls[1].op = "sendMessage"
    /\ last'.calls[1].what = what
    /\ last'.calls[1].buttons = <<>>
    /\ LAST_RESULTS' = LAST_RESULTS
    /\ sheet' = sheet

C4OriginalStep ==
    (Handled /\ last'.kind = "message" /\ ~OnlyHebrewLetters(last'.input))
    => RejectedWith("corrective")

\* C4 as claimed: every message whose text is not a non-empty string of
\* Hebrew letters gets the corrective message, with no call to the model or
\* the store and the cache as it was.
C4_Original == [][C4OriginalStep]_vars

C4Step ==
    (Handled /\ last'.kind = "message" /\ ~OnlyHebrewLetters(Strip(last'.input)))
    => RejectedWith(IF Strip(last'.input) = StartCommand THEN "welcome" ELSE "corrective")

\* C4 amended: a message whose text, stripped of surrounding whitespace, is
\* not a non-empty string of Hebrew letters makes one call only, sendMessage
\* without buttons: the welcome message when the text is /start, the
\* corrective message otherwise; no call to the model or the store is made
\* and the cache of every chat stays as it was.
C4_RejectedBeforeModel == [][C4Step]_vars

\* "a1" was rejected while a chat had a cached analysis
C4_RejectionSeen ==
    /\ last.kind = "message" /\ last.input = <<"a", "1">>
    /\ Whats(last.calls) = <<"corrective">>
    /\ LAST_RESULTS # <<>>

----------------------------------------------------------------------------
(* C5 *)

\* the structured payload of a completion is absent or fails to decode
Degraded(content) ==
    \/ Analysis[content].result.json_block = <<>>
    \/ ~JsonLoads(Analysis[content].result.json_block).ok

C5Step ==
    (/\ Handled /\ last'.kind = "message"
     /\ last'.stored # <<>>
     /\ Degraded(last'.stored))
    => LET calls == last'.calls
       IN  /\ Analysis[last'.stored].result.derived = <<>>
           /\ LAST_RESULTS'[last'.chat].derived = <<>>
           /\ Len(calls) >= 3
           /\ Whats(SubSeq(calls, 1, 3)) = <<"analyzing", "completion", "main">>
           /\ calls[3].arg = Analysis[last'.stored].result.main_text
           /\ calls[3].buttons = <<>>
           /\ calls[3].ok => Len(calls) = 3 /\ last'.raised = "none"

\* C5: when the completion has no structured payload, or one that fails to
\* decode, the analysis has an empty derived list and the handler still
\* sends the display text, without buttons; the error message is not sent
\* and nothing is raised (the send of the display text succeeding).
C5_DegradedStillShown == [][C5Step]_vars

\* a completion whose array does not decode was shown without buttons
C5_UndecodableShown ==
    /\ last.kind = "message"
    /\ last.stored = BrokenArrayText
    /\ Whats(last.calls) = <<"analyzing", "completion", "main">>
    /\ last.calls[3].buttons = <<>>
    /\ last.calls[3].arg # <<>>
    /\ last.raised = "none"

----------------------------------------------------------------------------
(* C6 *)

C6Step ==
    (/\ Handled /\ last'.kind = "callback" /\ IsSavePress(last'.input)
     /\ last'.chat \in DOMAIN LAST_RESULTS
     /\ IntValue(last'.input[3]) >= 0
     /\ IntValue(last'.input[3]) < Len(LAST_RESULTS[last'.chat].derived))
    => LET d == LAST_RESULTS[last'.chat].derived[IntValue(last'.input[3]) + 1]
           store == SheetCalls(last')
           answers == Whats(AnswerCalls(last'))
           Answered(what) == \E k \in 1..Len(answers) : answers[k] = what
       IN  /\ answers # <<>>
           /\ \A k \in 1..Len(answers) : answers[k] \in {"saved", "duplicate", "error"}
           /\ ~(Answered("saved") /\ Answered("duplicate"))
           /\ ~AllOk(store) => answers = <<"error">>
           /\ Answered("duplicate") =>
                 /\ Len(store) = 1 /\ store[1].op = "col_values" /\ store[1].ok
                 /\ Fields(d).hebrew \in Headwords(sheet)
                 /\ sheet' = sheet
           /\ Answered("saved") =>
                 /\ Len(store) = 2 /\ AllOk(store)
                 /\ store[1].op = "col_values" /\ store[2].op = "append_row"
                 /\ sheet' = Append(sheet, Row(d, LAST_RESULTS[last'.chat]))

\* C6: a save of a selection in range is answered "saved", "duplicate" or
\* "error" and never both "saved" and "duplicate"; when the read or the
\* append of the store fails the only answer is "error"; "duplicate" is
\* answered only after a read that succeeded and found the headword, with
\* nothing written; "saved" only after the read and the append succeeded.
C6_FailureIsNotDuplicate == [][C6Step]_vars

\* the read of the store failed and the save was answered "error" alone
C6_StoreFailureSeen ==
    /\ last.kind = "callback"
    /\ Len(SheetCalls(last)) = 1
    /\ ~SheetCalls(last)[1].ok
    /\ Whats(AnswerCalls(last)) = <<"error">>
    /\ last.raised = "none"

----------------------------------------------------------------------------
(* C7 *)

\* the sample is <display text> DERIVED_JSON: [<records>] and was parsed
RoundTripDone == out.done /\ sample.sep = <<SP>> /\ sample.after = <<>>

\* C7 as claimed: for every display text and every sequence of records,
\* parsing <display text> DERIVED_JSON: [<records>] gives back the records
\* in their order and the display text as main_text.
C7_Original ==
    RoundTripDone => out.derived = sample.records /\ out.main_text = sample.display

\* a marker that the search of line 194 matches: "[" follows it, after
\* optional whitespace
MarkerOpensArray(text) ==
    \E i \in 1..Len(text) :
        /\ text[i] = MARKER
        /\ SkipWs(text, i + 1) <= Len(text)
        /\ text[SkipWs(text, i + 1)] = LBR

HasFence(text) == \E i \in 1..Len(text) : text[i] \in {FENCE, FENCE_JSON, ObjW3F}

\* C7 amended: for every sequence of records whose strings hold no code
\* fence and every display text that holds no code fence and no marker
\* followed by "[", parsing <display text> DERIVED_JSON: [<records>] gives
\* back the records in their order, and as main_text the display text
\* without its leading and trailing whitespace.
C7_RoundTrip ==
    (/\ RoundTripDone
     /\ ~HasFence(sample.display)
     /\ ~HasFence(sample.records)
     /\ ~MarkerOpensArray(sample.display))
    => /\ out.derived = sample.records
       /\ out.main_text = Strip(sample.display)

\* two records came back in their order, with the display text trimmed
C7_TwoRecordsBack ==
    /\ RoundTripDone
    /\ sample.display = <<SP, "x">>
    /\ sample.records = <<ObjW2, ObjW1>>
    /\ out.derived = <<ObjW2, ObjW1>>
    /\ out.main_text = <<"x">>

----------------------------------------------------------------------------
(* C8 *)

\* C8: when the marker is followed by a well-formed array, with prose before
\* it (here: prose without marker and without code fence) and any prose
\* after it, main_text holds neither the marker nor the array, json_block is
\* the array, from the "[" after the marker to its matching "]", and derived
\* is the records of the array.
C8_PayloadIsTheArray ==
    (/\ out.done
     /\ ~HasFence(sample.display)
     /\ ~HasFence(sample.records)
     /\ ~Contains(sample.display, <<MARKER>>))
    => /\ ~Contains(out.main_text, <<MARKER>>)
       /\ ~Contains(out.main_text, ArrayText(sample.records))
       /\ out.json_block = ArrayText(sample.records)
       /\ out.derived = sample.records

----------------------------------------------------------------------------
(* C9 *)

\* C9: every outbound call (chat transport, model, store) is attempted at
\* most three times and is given up only after the third attempt failed.
C9_EveryCallRetried ==
    \A i \in 1..Len(last.calls) :
        /\ last.calls[i].attempts <= 3
        /\ ~last.calls[i].ok => last.calls[i].attempts = 3

----------------------------------------------------------------------------
(* C10 *)

\* C10: the loop never terminates by itself: whatever happens while an
\* update is handled or the updates are fetched, an error included, main
\* comes back to polling, again and again.
C10_LoopGoesOn == []<>(pc = "poll")

\* a handler let an error escape and the loop caught it
C10_ErrorCaught ==
    /\ pc = "except"
    /\ last.raised \in {"ValueError", "IndexError", "RuntimeError"}

----------------------------------------------------------------------------
(* C11 *)

\* the send of the display text among the calls of the update handled last
MainCalls(l) == SelectSeq(l.calls, LAMBDA c : c.what = "main")

\* the number of characters of the label shown on a button
ShownLen(label) == label.keep + (IF label.dots THEN 3 ELSE 0)

\* C11: the message that shows an analysis with derived words d[0..n-1]
\* carries n buttons in the order of the words (none when n = 0); button i
\* has the token save:<i> and the label "<headword> - <transliteration> -
\* <gloss>" of d[i], whole when it has at most 60 characters, else its first
\* 57 characters and "..."; no label shown is longer than 60 characters.
C11_ButtonList ==
    (last.kind = "message" /\ MainCalls(last) # <<>>)
    => LET d == Analysis[last.stored].result.derived
           b == MainCalls(last)[1].buttons
       IN  /\ Len(MainCalls(last)) = 1
           /\ Len(b) = Len(d)
           /\ \A i \in 1..Len(d) :
                LET f == Fields(d[i])
                    n == StrLen(f.hebrew) + 3 + StrLen(f.translit) + 3 + StrLen(f.english)
                IN  /\ b[i].callback_data = i - 1
                    /\ b[i].text.text = <<f.hebrew, " - ", f.translit, " - ", f.english>>
                    /\ b[i].text.dots = (n > 60)
                    /\ b[i].text.keep = IF n > 60 THEN 57 ELSE n
                    /\ ShownLen(b[i].text) <= 60

\* two buttons were sent: a label of 60 characters, whole, and one of 61, cut
C11_CutAndWholeSeen ==
    /\ last.kind = "message"
    /\ MainCalls(last) # <<>>
    /\ MainCalls(last)[1].ok
    /\ Len(MainCalls(last)[1].buttons) = 2
    /\ ShownLen(MainCalls(last)[1].buttons[1].text) = 60
    /\ ~MainCalls(last)[1].buttons[1].text.dots
    /\ MainCalls(last)[1].buttons[2].text.dots

----------------------------------------------------------------------------
(* C12 *)

ErrorSends(l) == SelectSeq(l.calls, LAMBDA c : c.what = "error" /\ c.op = "sendMessage")

\* C12: every record of every cache entry has the three fields headword,
\* transliteration and gloss, a decoded element without one of them having
\* been dropped; and a message whose completion was received is answered
\* with the display text, the error message being sent only when the send of
\* the display text failed.
C12_IncompleteRecordDropped ==
    /\ \A c \in DOMAIN LAST_RESULTS :
          \A i \in 1..Len(LAST_RESULTS[c].derived) :
             HasFields(LAST_RESULTS[c].derived[i])
    /\ (last.kind = "message" /\ last.stored # <<>>)
       => /\ MainCalls(last) # <<>>
          /\ MainCalls(last)[1].ok => ErrorSends(last) = <<>>

----------------------------------------------------------------------------
(* C13 *)

\* C13: a press "save:<i>" whose index is out of bounds for the entry of its
\* chat, a negative index included, is answered "expired" and nothing else
\* happens: no call to the store, no exception (handle_callback changes no
\* cache entry, so the entry read here is the one the press was judged by).
C13_OutOfBoundsExpires ==
    (/\ last.kind = "callback" /\ IsSavePress(last.input)
     /\ last.chat \in DOMAIN LAST_RESULTS
     /\ \/ IntValue(last.input[3]) < 0
        \/ IntValue(last.input[3]) >= Len(LAST_RESULTS[last.chat].derived))
    => /\ Whats(last.calls) = <<"expired">>
       /\ last.calls[1].ok => last.raised = "none"

----------------------------------------------------------------------------
(* C14 *)

\* the row of derived word i (counted from 0) of the analysis of a completion
RowOf(content, i) ==
    LET f == Fields(Analysis[content].result.derived[i + 1])
        meta == Analysis[content].meta
    IN  <<f.hebrew, f.translit, f.english, meta.heb_root, meta.ar_root, meta.ar_examples>>

\* C14: a press "save:<i>", i >= 0, is judged by the entry the chat has at
\* that moment, the one of the analysis stored last for the chat: when i is
\* in range for it, a row that gets written is word i of that analysis with
\* the metadata of that analysis, whatever analysis the button came from;
\* when i is out of range for it the answer is "expired".
C14_SaveTargetsCurrentEntry ==
    (/\ last.kind = "callback" /\ IsSavePress(last.input)
     /\ last.chat \in DOMAIN origin
     /\ IntValue(last.input[3]) >= 0)
    => LET i == IntValue(last.input[3])
           B == origin[last.chat]
       IN  IF i >= Len(Analysis[B].result.derived)
           THEN Whats(last.calls) = <<"expired">>
           ELSE (\E k \in 1..Len(last.calls) : last.calls[k].what = "saved")
                => sheet[Len(sheet)] = RowOf(B, i)

\* the scenario was presented, the chat's next analysis replaced it, and
\* "save:0" wrote word 0 of the new analysis with the root of the new one
C14_ReplacedThenSaved ==
    /\ last.kind = "callback" /\ last.input = <<SAVE, COLON, "0">>
    /\ last.chat \in DOMAIN earlier
    /\ earlier[last.chat] = ScenarioText
    /\ origin[last.chat] = FormatText
    /\ Whats(last.calls) = <<"store", "store", "saved">>
    /\ sheet[Len(sheet)][1] = "SLM"
    /\ sheet[Len(sheet)][4] = <<RootSLM>>

----------------------------------------------------------------------------
(* C15 *)

\* every cache entry is, field by field, the analysis of the completion
\* stored last for its chat
EntriesAreWhole ==
    /\ DOMAIN LAST_RESULTS = DOMAIN origin
    /\ \A c \in DOMAIN LAST_RESULTS :
          /\ LAST_RESULTS[c].heb_root = Analysis[origin[c]].meta.heb_root
          /\ LAST_RESULTS[c].ar_root = Analysis[origin[c]].meta.ar_root
          /\ LAST_RESULTS[c].ar_examples = Analysis[origin[c]].meta.ar_examples
          /\ LAST_RESULTS[c].derived = Analysis[origin[c]].result.derived

\* handling an update of one chat leaves the entries of the other chats alone
C15Step ==
    (Handled /\ last'.kind \in {"message", "callback"})
    => \A c \in Chats \ {last'.chat} :
          /\ c \in DOMAIN LAST_RESULTS' <=> c \in DOMAIN LAST_RESULTS
          /\ c \in DOMAIN LAST_RESULTS => LAST_RESULTS'[c] = LAST_RESULTS[c]

\* C15: handling an update of a chat never changes the cache entry of
\* another chat, and at every moment the root, the cognate root, the cognate
\* examples and the derived words of an entry all come from one analysis,
\* the one stored last for its chat.
C15_CacheIsolation == []EntriesAreWhole /\ [][C15Step]_vars

\* chat 1 had its entry replaced while chat 2 holds another entry
C15_TwoChatsSeen ==
    /\ DOMAIN LAST_RESULTS = {1, 2}
    /\ 1 \in DOMAIN earlier
    /\ earlier[1] # origin[1]
    /\ origin[2] # origin[1]
    /\ LAST_RESULTS[1] # LAST_RESULTS[2]
    /\ last.kind = "message" /\ last.chat = 1

----------------------------------------------------------------------------
(* C16 *)

C16Step ==
    (Handled /\ last'.kind = "message" /\ ErrorSends(last') # <<>>)
    => LAST_RESULTS' = LAST_RESULTS

\* C16: when the handling of a message ends with the error message (the
\* model call failed at every attempt, or something raised inside the try
\* block), the cache entry of the chat, like every other, is what it was
\* before the message.
C16_ErrorLeavesCache == [][C16Step]_vars

----------------------------------------------------------------------------
(* C17 *)

\* C17: whatever the display text, each of the three values returned by
\* extract_roots_and_arabic (the root, the cognate root, the cognate
\* examples) is a non-empty string.
C17_NoEmptyField ==
    out.done =>
        /\ out.meta.heb_root # <<>>
        /\ out.meta.ar_root # <<>>
        /\ out.meta.ar_examples # <<>>

----------------------------------------------------------------------------
(* C18 *)

\* the lines of the display text the first loop looks at
MetaLines == Lines(JoinLines(sample.lines))

\* the lines that match the root rule, and those that start with the
\* cognate-root prefix
RootHits == {i \in 1..Len(MetaLines) : /\ Contains(MetaLines[i], <<SP, ROOT, SP, EQ>>)
                                       /\ RootSearch(MetaLines[i]).found}
CognateHits == {i \in 1..Len(MetaLines) : StartsWith(MetaLines[i], CognatePrefix)}

FirstOf(hits) == CHOOSE i \in hits : \A j \in hits : i <= j

\* C18: the root is the one of the first line that matches the root rule
\* and the cognate root the one of the first line that starts with "Arabic
\* cognate root", whatever lines follow; when that first cognate-root line
\* holds "= none", the cognate root and the cognate examples are both
\* "none".
C18_FirstMatchWins ==
    out.done =>
        /\ RootHits # {} =>
              out.meta.heb_root = HebRootStep(Unknown, MetaLines[FirstOf(RootHits)])
        /\ CognateHits # {} =>
              out.meta.ar_root = ArRootStep(None, MetaLines[FirstOf(CognateHits)])
        /\ (/\ CognateHits # {}
            /\ Contains(MetaLines[FirstOf(CognateHits)], <<EQ, SP, NONE>>))
           => (out.meta.ar_root = None /\ out.meta.ar_examples = None)

----------------------------------------------------------------------------
(* C19 *)

\* the for loop takes an update
Taken == pc # "handle" /\ pc' = "handle"

\* the update_id the transport hands out first for the present offset
NextInOrder == IF offset = 0 THEN 1 ELSE offset

C19Step ==
    /\ Taken => (cur'.id = NextInOrder /\ offset' = cur'.id + 1)
    /\ pc = "handle" => (/\ offset = cur.id + 1
                         /\ offset' = offset
                         /\ last'.id = cur.id
                         /\ pc' # "handle")
    /\ offset' # offset => Taken

\* C19: the update taken is always the first one not taken before (ids
\* 1, 2, 3, ... in arrival order, none twice, none left out), the offset
\* stands past it before its handler runs and moves at no other moment, and
\* one handler runs for it before the next update is taken.  So after a
\* handler raised the next update taken is the one that follows it.
C19_UpdateOrdering == [][C19Step]_vars

\* the handler of an update raised while later updates of its batch were
\* waiting, and the offset stands past the update
C19_RaisedWithOthersWaiting ==
    /\ pc = "except"
    /\ last.raised # "none"
    /\ last.id < nextId - 1
    /\ offset = last.id + 1

----------------------------------------------------------------------------
(* C20 *)

\* the first column of every row of the sheet, row 1 included
FirstColumn(sh) == {sh[i][1] : i \in 1..Len(sh)}

C20Step ==
    (/\ Handled /\ last'.kind = "callback"
     /\ SheetCalls(last') # <<>>
     /\ AllOk(last'.calls))
    => LET idx == IntValue(last'.input[3])
           h == Fields(PyIndex(LAST_RESULTS[last'.chat].derived, idx)).hebrew
       IN  h \in FirstColumn(sheet)
           => sheet' = sheet /\ Whats(AnswerCalls(last')) = <<"duplicate">>

\* C20: whatever the sheet held at the start, a header row or nothing at
\* all, a save of a headword that stands in a row of the sheet (a row an
\* earlier save appended and reported "saved") appends nothing and answers
\* "duplicate" (the calls to the store and the answer succeeding).
C20_DuplicateFromAnyStore == [][C20Step]_vars

=============================================================================
